---- MODULE Spec2Model ----
(***************************************************************************)
(* The CSV upload session of src/containers/CSVUploader/index.jsx: the     *)
(* component state, its handlers onPickCSV / onDelete / onSave, the        *)
(* progress callback handed to the upload transport, and the part of       *)
(* render() that gates the handlers.  parseCSV (./parseCSV) is modelled    *)
(* from its written contract.                                              *)
(***************************************************************************)
EXTENDS Integers, Sequences, FiniteSets, TLC

\* ------------------------------------------------------------------ bounds
MaxRows == 2        \* data rows in a picked file
MaxUploads == 2     \* calls of props.onUpload in one run
MaxTotal == 2       \* progressEvent.total (and .loaded)
MaxErrors == 11     \* failing rows of a file picked to fill the error list

\* ------------------------------------------------------- JavaScript values
Null == [tag |-> "null"]
Undefined == [tag |-> "undefined"]
Val(x) == [tag |-> "val", val |-> x]
Arr(s) == [tag |-> "array", items |-> s]
Str(s) == [tag |-> "string", str |-> s]

IsNullish(v) == v.tag \in {"null", "undefined"}

Min(a, b) == IF a < b THEN a ELSE b

\* s.length of the strings that can be passed as initialError
StringLength(s) == CASE s = "" -> 0
                     [] s = "Upload failed" -> 13
                     [] s = "Upload fa" -> 9
                     [] OTHER -> 1

\* e.length for the values this.state.errors can hold (0 stands for a
\* falsy operand of &&)
ErrorsLength(e) == CASE e.tag = "array" -> Len(e.items)
                     [] e.tag = "string" -> StringLength(e.str)
                     [] OTHER -> 0

\* ------------------------------------------------------------ props
\* kind names the callback a column carries: "validate",
\* "transformAndValidate" or "none"
Column(inputName, aliases, apiName, required, kind) ==
    [inputName |-> inputName, aliases |-> aliases, apiName |-> apiName,
     required |-> required, kind |-> kind]

Props(columnConfig, maxRows, dedupeOn, initialError) ==
    [columnConfig |-> columnConfig, maxRows |-> maxRows,
     dedupeOn |-> dedupeOn, initialError |-> initialError]

RequiredValidate ==
    << Column("cell", {"phone"}, "cellNumber", TRUE, "validate"),
       Column("zip", {}, "zipCode", FALSE, "transformAndValidate") >>
NoneRequired ==
    << Column("cell", {"phone"}, "cellNumber", FALSE, "none"),
       Column("zip", {}, "zipCode", FALSE, "transformAndValidate") >>

PropsSet ==
    { Props(RequiredValidate, Undefined, Undefined, Undefined),
      Props(RequiredValidate, Val(1), Undefined, Str("Upload failed")),
      Props(RequiredValidate, Undefined, Val("cell"), Undefined),
      Props(NoneRequired, Undefined, Val("cell"), Undefined) }

\* ------------------------------------------------------------ files
\* the cells a file may hold under a header: two accepted values, one the
\* callbacks reject, one on which transformAndValidate throws
CellValues(h) == CASE h = "zip" -> {"x", "bad", "boom"}
                  [] h = "Phone" -> {"x", "bad"}
                  [] OTHER -> {"x", "y", "bad"}
Headers == { <<>>, <<"cell">>, <<"Phone">>, <<"zip">>,
             <<"cell", "zip">>, <<"Phone", "cell">> }
FileNames == {"a.csv", "b.csv"}

RowsOf(h) ==
    UNION { [1..n -> { r \in [DOMAIN h -> {"x", "y", "bad", "boom"}] :
                          \A i \in DOMAIN h : r[i] \in CellValues(h[i]) }] :
            n \in 0..MaxRows }

\* every header and row content under the first name, the files of at
\* most one row under the other names too
Files ==
    UNION { { [name |-> "a.csv", malformed |-> FALSE, header |-> h, rows |-> rs] :
                rs \in RowsOf(h) } : h \in Headers }
    \cup UNION { { [name |-> nm, malformed |-> FALSE, header |-> h, rows |-> rs] :
                nm \in FileNames, rs \in { r \in RowsOf(h) : Len(r) <= 1 } } :
                h \in Headers }
    \cup { [name |-> nm, malformed |-> TRUE, header |-> <<>>, rows |-> <<>>] :
                nm \in FileNames }

\* the (acceptedFiles, rejectedFiles.length) pairs a selection may hand to
\* onPickCSV: nothing, any single file, two files, and selections with a
\* rejected file
Selections ==
    LET few == { g \in Files : g.rows = <<>> /\ g.header = <<>> }
    IN { [accepted |-> <<>>, rejected |-> n] : n \in 0..1 }
       \cup { [accepted |-> << f >>, rejected |-> 0] : f \in Files }
       \cup { [accepted |-> << f >>, rejected |-> 1] : f \in few }
       \cup { [accepted |-> << f, f >>, rejected |-> n] : f \in few, n \in 0..1 }

\* ------------------------------------------------ parseCSV (./parseCSV)
\* The callbacks a column config carries.  validate returns a boolean;
\* transformAndValidate throws, or returns {valid, value}.
validate(value) == value # "bad"

TransformThrows(value) == value = "boom"
TransformValid(value) == value # "bad"
TransformValue(value) == "t(" \o value \o ")"

Lower(s) == CASE s = "Phone" -> "phone" [] OTHER -> s

\* Row Normalizer: inputName first, then aliases, else the header itself
Canonical(h, columnConfig) ==
    IF \E k \in DOMAIN columnConfig : Lower(h) = Lower(columnConfig[k].inputName)
    THEN columnConfig[CHOOSE k \in DOMAIN columnConfig :
                        Lower(h) = Lower(columnConfig[k].inputName)].inputName
    ELSE IF \E k \in DOMAIN columnConfig :
              \E a \in columnConfig[k].aliases : Lower(h) = Lower(a)
    THEN columnConfig[CHOOSE k \in DOMAIN columnConfig :
              \E a \in columnConfig[k].aliases : Lower(h) = Lower(a)].inputName
    ELSE h

ParsedFields(header, columnConfig) ==
    { Canonical(header[i], columnConfig) : i \in DOMAIN header }

\* the later of two headers that resolve to one inputName wins
NormalizeRow(header, raw, columnConfig) ==
    [ n \in ParsedFields(header, columnConfig) |->
        raw[CHOOSE i \in DOMAIN header :
              /\ Canonical(header[i], columnConfig) = n
              /\ \A j \in DOMAIN header :
                    j > i => Canonical(header[j], columnConfig) # n] ]

\* the value of a column in a normalized row ("" when the column is absent)
CellOf(nrow, name) == IF name \in DOMAIN nrow THEN nrow[name] ELSE ""

TruncateRows(rows, maxRows) ==
    IF maxRows.tag = "val" THEN SubSeq(rows, 1, Min(Len(rows), maxRows.val))
    ELSE rows

RowThrows(nrow, columnConfig) ==
    \E k \in DOMAIN columnConfig :
        /\ columnConfig[k].kind = "transformAndValidate"
        /\ TransformThrows(CellOf(nrow, columnConfig[k].inputName))

\* a validate() check fails on the row: blocking
RowBlocked(nrow, columnConfig) ==
    \E k \in DOMAIN columnConfig :
        /\ columnConfig[k].kind = "validate"
        /\ ~validate(CellOf(nrow, columnConfig[k].inputName))

\* a transformAndValidate() returns valid: false on the row: row filtered
RowFiltered(nrow, columnConfig) ==
    \E k \in DOMAIN columnConfig :
        /\ columnConfig[k].kind = "transformAndValidate"
        /\ ~TransformValid(CellOf(nrow, columnConfig[k].inputName))

RowSurvives(nrow, columnConfig) ==
    ~RowBlocked(nrow, columnConfig) /\ ~RowFiltered(nrow, columnConfig)

RowMessage(i, name) == "Row " \o ToString(i) \o ": invalid " \o name

\* messages of row i, columns k.. in declared order, no short-circuit
RECURSIVE RowErrors(_, _, _, _)
RowErrors(i, k, nrow, columnConfig) ==
    IF k > Len(columnConfig) THEN <<>>
    ELSE LET c == columnConfig[k]
             v == CellOf(nrow, c.inputName)
             failed == \/ c.kind = "validate" /\ ~validate(v)
                       \/ c.kind = "transformAndValidate" /\ ~TransformValid(v)
         IN (IF failed THEN << RowMessage(i, c.inputName) >> ELSE <<>>)
            \o RowErrors(i, k + 1, nrow, columnConfig)

RECURSIVE AllErrors(_, _, _)
AllErrors(i, nrows, columnConfig) ==
    IF i > Len(nrows) THEN <<>>
    ELSE RowErrors(i, 1, nrows[i], columnConfig)
         \o AllErrors(i + 1, nrows, columnConfig)

OutputRow(nrow, columnConfig) ==
    LET present == { k \in DOMAIN columnConfig :
                        columnConfig[k].inputName \in DOMAIN nrow }
        colOf(a) == columnConfig[CHOOSE k \in present : columnConfig[k].apiName = a]
    IN [ a \in { columnConfig[k].apiName : k \in present } |->
           IF colOf(a).kind = "transformAndValidate"
           THEN TransformValue(nrow[colOf(a).inputName])
           ELSE nrow[colOf(a).inputName] ]

\* indices of the rows that survive validation, in file order
RECURSIVE SurvivingRows(_, _, _)
SurvivingRows(i, nrows, columnConfig) ==
    IF i > Len(nrows) THEN <<>>
    ELSE (IF RowSurvives(nrows[i], columnConfig) THEN << i >> ELSE <<>>)
         \o SurvivingRows(i + 1, nrows, columnConfig)

\* Dedup Filter: keeps the first occurrence of each key
RECURSIVE DedupeRows(_, _, _, _)
DedupeRows(idx, nrows, dedupeOn, seen) ==
    IF dedupeOn.tag # "val" THEN idx
    ELSE IF idx = <<>> THEN <<>>
    ELSE LET key == CellOf(nrows[Head(idx)], dedupeOn.val)
         IN IF key \in seen
            THEN DedupeRows(Tail(idx), nrows, dedupeOn, seen)
            ELSE << Head(idx) >>
                 \o DedupeRows(Tail(idx), nrows, dedupeOn, seen \cup {key})

\* slip: the filtered rows are left out of the statistics
FilteredCount_Uncounted(nrows, columnConfig) == 0

\* rows a transformAndValidate() filtered out
FilteredCount(nrows, columnConfig) ==
    Cardinality({ i \in DOMAIN nrows : RowFiltered(nrows[i], columnConfig) })

\* rows only a validate() check rejected
BlockedCount(nrows, columnConfig) ==
    Cardinality({ i \in DOMAIN nrows :
        RowBlocked(nrows[i], columnConfig) /\ ~RowFiltered(nrows[i], columnConfig) })

Rejected(message) == [status |-> "rejected", message |-> message]
Resolved(result) == [status |-> "resolved", result |-> result]

\* The ParseResult of a pass.  blockedAsInvalid is the policy for the rows
\* a validate() check rejected: counted in invalidRows, or kept out of
\* every counter.
ParseResult(data, parsedFields, name, messages, counts, blockedAsInvalid) ==
    [ data |-> data,
      fields |-> parsedFields,
      validationStats |->
        [ totalRows |-> counts.total,
          validRows |-> Len(data),
          invalidRows |-> counts.filtered
                            + (IF blockedAsInvalid THEN counts.blocked ELSE 0),
          duplicateRows |-> counts.duplicates ],
      fileName |-> name,
      errors |-> messages ]

\* One parse pass: what the promise returned by parseCSV(file, options)
\* can settle to
ParseCSV(file, options) ==
    IF file.tag # "val"
    THEN { Rejected("no file"),
           Resolved(ParseResult(<<>>, {}, "", << "No file" >>,
               [total |-> 0, filtered |-> 0, blocked |-> 0, duplicates |-> 0],
               TRUE)) }
    ELSE IF file.val.malformed THEN { Rejected("ParseError") }
    ELSE
    LET f == file.val
        cfg == options.columnConfig
        raws == TruncateRows(f.rows, options.maxRows)
        nrows == [ i \in DOMAIN raws |-> NormalizeRow(f.header, raws[i], cfg) ]
        surviving == SurvivingRows(1, nrows, cfg)
        kept == DedupeRows(surviving, nrows, options.dedupeOn, {})
        data == [ j \in DOMAIN kept |-> OutputRow(nrows[kept[j]], cfg) ]
        parsedFields == ParsedFields(f.header, cfg)
        messages == AllErrors(1, nrows, cfg)
        counts == [ total |-> Len(nrows),
                    filtered |-> FilteredCount(nrows, cfg),
                    blocked |-> BlockedCount(nrows, cfg),
                    duplicates |-> Len(surviving) - Len(kept) ]
    IN IF \E i \in DOMAIN nrows : RowThrows(nrows[i], cfg)
       THEN { Rejected("transformAndValidate threw") }
       ELSE { Resolved(ParseResult(data, parsedFields, f.name, messages, counts, b)) :
              b \in (IF counts.blocked > 0 THEN BOOLEAN ELSE {TRUE}) }

\* ------------------------------------------------------------ the session
VARIABLES
    props,            \* this.props, fixed at construction
    state,            \* this.state.state: idle, parsing, parsed, uploading
    errors,           \* this.state.errors
    uploadError,      \* this.state.uploadError
    parsedData,       \* this.state.parsedData
    validationStats,  \* this.state.validationStats
    fields,           \* this.state.fields
    fileName,         \* this.state.fileName
    uploadProgress,   \* this.state.uploadProgress
    pendingParses,    \* outcomes of the parseCSV promises not yet settled
    pendingUploads,   \* requests of the props.onUpload promises not yet settled
    attempts,         \* number of calls of props.onUpload so far
    latestParse,      \* the result of the parse completed since the picker was last shown
    lastEvent         \* the handler that ran last, with its input

sessionVars == << state, errors, uploadError, parsedData, validationStats,
                  fields, fileName, uploadProgress >>

vars == << props, state, errors, uploadError, parsedData, validationStats,
           fields, fileName, uploadProgress, pendingParses, pendingUploads,
           attempts, latestParse, lastEvent >>

SingleFileMessage == "Please upload a single CSV file"
NoValidRowMessage == "Please upload at least one valid row."

UploadErrors == { Str("Network Error"), Undefined }

\* constructor
Init ==
    /\ props \in PropsSet
    /\ state = "idle"
    /\ errors = props.initialError
    /\ uploadError = Null
    /\ parsedData = Null
    /\ validationStats = Null
    /\ fields = Null
    /\ fileName = Undefined
    /\ uploadProgress = Undefined
    /\ pendingParses = <<>>
    /\ pendingUploads = <<>>
    /\ attempts = 0
    /\ latestParse = Null
    /\ lastEvent = [op |-> "constructor"]

\* ------------------------------------------------------------ render()
\* columnIsPresent(name): null while no fields are known
columnIsPresent(name) ==
    IF IsNullish(fields) THEN Null ELSE Val(name \in fields.val)

Truthy(v) == v.tag = "val" /\ v.val = TRUE

requiredColumns ==
    { props.columnConfig[k] : k \in { j \in DOMAIN props.columnConfig :
                                         props.columnConfig[j].required } }

\* slip: the required columns are not looked at
canSaveAndContinue_IgnoresRequired ==
    /\ ~(ErrorsLength(errors) > 0)
    /\ state # "uploading"

\* slip: the button stays enabled while an upload is in flight
canSaveAndContinue_WhileUploading ==
    /\ ~(ErrorsLength(errors) > 0)
    /\ \A c \in requiredColumns : Truthy(columnIsPresent(c.inputName))

canSaveAndContinue ==
    /\ ~(ErrorsLength(errors) > 0)
    /\ state # "uploading"
    /\ \A c \in requiredColumns : Truthy(columnIsPresent(c.inputName))

\* slip: the picker stays on screen while a parse is running
FilePickerRendered_WhileParsing == state \in {"idle", "parsing"}

\* a value that passes a JavaScript truth test (an empty array does)
JsTruthy(v) == v.tag = "array" \/ (v.tag = "string" /\ v.str # "")

\* the number of error messages render() shows before the overflow line
MaxVisibleErrors == 9

\* s.slice(0, 9) of the strings that can be passed as initialError
StringSlice(s) == CASE s = "Upload failed" -> "Upload fa" [] OTHER -> s

\* slip: the slice is one longer than the overflow count assumes
validationErrors_SliceTen ==
    CASE errors.tag = "array" ->
            Arr(SubSeq(errors.items, 1, Min(Len(errors.items), MaxVisibleErrors + 1)))
      [] errors.tag = "string" /\ errors.str # "" -> Str(StringSlice(errors.str))
      [] OTHER -> errors

\* this.state.errors && this.state.errors.slice(0, 9)
validationErrors ==
    CASE errors.tag = "array" ->
            Arr(SubSeq(errors.items, 1, Min(Len(errors.items), MaxVisibleErrors)))
      [] errors.tag = "string" /\ errors.str # "" -> Str(StringSlice(errors.str))
      [] OTHER -> errors

\* the errors constant of render()
shownErrors ==
    IF JsTruthy(uploadError) THEN Arr(<< uploadError.str >>) ELSE validationErrors

\* allErrorLength - visibleErrors (null - null is 0, undefined - undefined NaN)
rest ==
    CASE JsTruthy(errors) -> Val(ErrorsLength(errors) - ErrorsLength(validationErrors))
      [] errors.tag = "undefined" -> [tag |-> "NaN"]
      [] OTHER -> Val(0)

\* the messages render() puts on screen, in order; errors.map does not
\* exist on a string
RenderedErrors ==
    CASE shownErrors.tag = "array" -> shownErrors
      [] shownErrors.tag = "string" /\ shownErrors.str # "" -> [tag |-> "TypeError"]
      [] OTHER -> Arr(<<>>)

\* the "...and N more rows with errors" line is rendered
OverflowLineShown == rest.tag = "val" /\ rest.val # 0

\* <FilePicker> is rendered
FilePickerRendered == state = "idle"

\* <ValidationStats canDelete> is rendered with canDelete true
CanDelete == state \in {"parsed", "uploading"} /\ state = "parsed"

\* the Upload button is rendered
UploadButtonRendered == state \in {"uploading", "parsed"}

\* a click on the Upload button calls onSave
UploadEnabled == UploadButtonRendered /\ canSaveAndContinue

\* ------------------------------------------------------------ onPickCSV
SelectionRejected(nAccepted, nRejected) ==
    nRejected > 0 \/ nAccepted + nRejected > 1

\* acceptedFiles[0]
FirstAccepted(acceptedFiles) ==
    IF Len(acceptedFiles) > 0 THEN Val(acceptedFiles[1]) ELSE Undefined

ParseOptions == [ maxRows |-> props.maxRows,
                  columnConfig |-> props.columnConfig,
                  dedupeOn |-> props.dedupeOn ]

\* onPickCSV up to its await
OnPickCSV(acceptedFiles, nRejected) ==
    /\ FilePickerRendered
    /\ lastEvent' = [op |-> "onPickCSV", accepted |-> Len(acceptedFiles),
                     rejected |-> nRejected]
    /\ IF SelectionRejected(Len(acceptedFiles), nRejected)
       THEN /\ errors' = Arr(<< SingleFileMessage >>)
            /\ UNCHANGED << state, parsedData, validationStats, fields, pendingParses >>
       ELSE /\ errors' = Null
            /\ parsedData' = Null
            /\ validationStats' = Null
            /\ fields' = Null
            /\ state' = "parsing"
            /\ \E outcome \in ParseCSV(FirstAccepted(acceptedFiles), ParseOptions) :
                  pendingParses' = Append(pendingParses, outcome)
    /\ latestParse' = Null
    /\ UNCHANGED << props, uploadError, fileName, uploadProgress,
                    pendingUploads, attempts >>

RemoveAt(s, i) == SubSeq(s, 1, i - 1) \o SubSeq(s, i + 1, Len(s))

\* slip: the empty dataset is not reported
ErrorsAfterParse_NoRowCheck(result) == Arr(result.errors)

\* the errors onPickCSV stores for a parse result
ErrorsAfterParse(result) ==
    IF Len(result.errors) # 0 THEN Arr(result.errors)
    ELSE IF Len(result.data) > 0 THEN Arr(<<>>) ELSE Arr(<< NoValidRowMessage >>)

\* slip: the dataset is stored although the result carries errors
ParsedDataAfterParse_StoredDespiteErrors(result, old) == Val(result.data)

\* the parsedData onPickCSV stores for a parse result
ParsedDataAfterParse(result, old) ==
    IF Len(result.errors) # 0 THEN old ELSE Val(result.data)

\* slip: the file name of the result is not stored
FileNameAfterParse_NotStored(result, old) == old

\* the fileName onPickCSV stores for a parse result
FileNameAfterParse(result, old) ==
    IF Len(result.errors) # 0 THEN old ELSE Val(result.fileName)

\* onPickCSV after its await, the promise resolved
OnPickCSVResolved(i) ==
    /\ i \in DOMAIN pendingParses
    /\ pendingParses[i].status = "resolved"
    /\ LET result == pendingParses[i].result
       IN /\ state' = "parsed"
          /\ validationStats' = Val(result.validationStats)
          /\ fields' = Val(result.fields)
          /\ errors' = ErrorsAfterParse(result)
          /\ parsedData' = ParsedDataAfterParse(result, parsedData)
          /\ fileName' = FileNameAfterParse(result, fileName)
          /\ latestParse' = Val(result)
          /\ lastEvent' = [op |-> "parseResolved", result |-> result]
    /\ pendingParses' = RemoveAt(pendingParses, i)
    /\ UNCHANGED << props, uploadError, uploadProgress, pendingUploads,
                    attempts >>

\* onPickCSV after its await, the promise rejected: nothing catches it
OnPickCSVRejected(i) ==
    /\ i \in DOMAIN pendingParses
    /\ pendingParses[i].status = "rejected"
    /\ pendingParses' = RemoveAt(pendingParses, i)
    /\ lastEvent' = [op |-> "parseRejected", message |-> pendingParses[i].message]
    /\ UNCHANGED << props, sessionVars, pendingUploads, attempts, latestParse >>

\* ------------------------------------------------------------ onDelete
\* slip: the errors of the deleted file are kept
OnDelete_KeepsErrors ==
    /\ CanDelete
    /\ uploadError' = Null
    /\ parsedData' = Null
    /\ validationStats' = Null
    /\ fields' = Null
    /\ state' = "idle"
    /\ latestParse' = Null
    /\ lastEvent' = [op |-> "onDelete"]
    /\ UNCHANGED << props, errors, fileName, uploadProgress, pendingParses,
                    pendingUploads, attempts >>

OnDelete ==
    /\ CanDelete
    /\ errors' = Null
    /\ uploadError' = Null
    /\ parsedData' = Null
    /\ validationStats' = Null
    /\ fields' = Null
    /\ state' = "idle"
    /\ latestParse' = Null
    /\ lastEvent' = [op |-> "onDelete"]
    /\ UNCHANGED << props, fileName, uploadProgress, pendingParses,
                    pendingUploads, attempts >>

\* ------------------------------------------------------------ onSave
\* slip: the error of the previous attempt is kept while the next one runs
OnSave_KeepsUploadError ==
    /\ UploadEnabled
    /\ attempts < MaxUploads
    /\ state' = "uploading"
    /\ uploadProgress' = Val(0)
    /\ attempts' = attempts + 1
    /\ pendingUploads' = Append(pendingUploads,
            [ data |-> parsedData, fileName |-> fileName, attempt |-> attempts + 1 ])
    /\ lastEvent' = [op |-> "onSave"]
    /\ UNCHANGED << props, errors, uploadError, parsedData, validationStats,
                    fields, fileName, pendingParses, latestParse >>

\* onSave up to its await
OnSave ==
    /\ UploadEnabled
    /\ attempts < MaxUploads
    /\ state' = "uploading"
    /\ uploadError' = Null
    /\ uploadProgress' = Val(0)
    /\ attempts' = attempts + 1
    /\ pendingUploads' = Append(pendingUploads,
            [ data |-> parsedData, fileName |-> fileName, attempt |-> attempts + 1 ])
    /\ lastEvent' = [op |-> "onSave"]
    /\ UNCHANGED << props, errors, parsedData, validationStats, fields,
                    fileName, pendingParses, latestParse >>

\* Math.round(loaded / total)
RoundedProgress(loaded, total) ==
    IF total = 0
    THEN (IF loaded = 0 THEN [tag |-> "NaN"] ELSE [tag |-> "Infinity"])
    ELSE Val((2 * loaded + total) \div (2 * total))

\* slip: the callback does not look at the session state
ProgressAccepted_Always == TRUE

\* the guard of the progress callback
ProgressAccepted == state = "uploading"

\* the onUploadProgress callback of the request of attempt a
OnUploadProgress(a, loaded, total) ==
    /\ a \in 1..attempts
    /\ lastEvent' = [op |-> "onUploadProgress", attempt |-> a]
    /\ IF ProgressAccepted
       THEN uploadProgress' = RoundedProgress(loaded, total)
       ELSE UNCHANGED uploadProgress
    /\ UNCHANGED << props, state, errors, uploadError, parsedData,
                    validationStats, fields, fileName, pendingParses,
                    pendingUploads, attempts, latestParse >>

\* onSave after its await, the transport resolved
OnSaveResolved(i) ==
    /\ i \in DOMAIN pendingUploads
    /\ pendingUploads' = RemoveAt(pendingUploads, i)
    /\ state' = "idle"
    /\ errors' = Null
    /\ uploadError' = Null
    /\ parsedData' = Null
    /\ validationStats' = Null
    /\ fields' = Null
    /\ latestParse' = Null
    /\ lastEvent' = [op |-> "uploadResolved", attempt |-> pendingUploads[i].attempt]
    /\ UNCHANGED << props, fileName, uploadProgress, pendingParses,
                    attempts >>

\* slip: the catch block drops the message
UploadErrorAfterFailure_Dropped(message) == Null

\* the uploadError onSave stores when the transport raised e
UploadErrorAfterFailure(message) == message

\* onSave's catch block, the transport raised an error with e.message
OnSaveRejected(i, message) ==
    /\ i \in DOMAIN pendingUploads
    /\ pendingUploads' = RemoveAt(pendingUploads, i)
    /\ state' = "parsed"
    /\ uploadError' = UploadErrorAfterFailure(message)
    /\ lastEvent' = [op |-> "uploadRejected", attempt |-> pendingUploads[i].attempt,
                     message |-> message]
    /\ UNCHANGED << props, errors, parsedData, validationStats, fields,
                    fileName, uploadProgress, pendingParses, attempts,
                    latestParse >>

Next ==
    \/ \E selection \in Selections :
          OnPickCSV(selection.accepted, selection.rejected)
    \/ \E i \in DOMAIN pendingParses : OnPickCSVResolved(i)
    \/ \E i \in DOMAIN pendingParses : OnPickCSVRejected(i)
    \/ OnDelete
    \/ OnSave
    \/ \E a \in 1..MaxUploads, total \in 0..MaxTotal, loaded \in 0..MaxTotal :
          loaded <= total /\ OnUploadProgress(a, loaded, total)
    \/ \E i \in DOMAIN pendingUploads : OnSaveResolved(i)
    \/ \E i \in DOMAIN pendingUploads, message \in UploadErrors :
          OnSaveRejected(i, message)

Spec == Init /\ [][Next]_vars

\* Files whose every row is filtered out, up to MaxErrors rows
LongFiles ==
    { [name |-> "a.csv", malformed |-> FALSE, header |-> << "zip" >>,
       rows |-> [ i \in 1..n |-> << "bad" >> ]] : n \in 0..MaxErrors }

\* the session right after the constructor and a pick of one long file
InitLongFile ==
    /\ props \in PropsSet
    /\ state = "parsing"
    /\ errors = Null
    /\ uploadError = Null
    /\ parsedData = Null
    /\ validationStats = Null
    /\ fields = Null
    /\ fileName = Undefined
    /\ uploadProgress = Undefined
    /\ \E file \in LongFiles :
          \E outcome \in ParseCSV(Val(file), ParseOptions) :
             pendingParses = << outcome >>
    /\ pendingUploads = <<>>
    /\ attempts = 0
    /\ latestParse = Null
    /\ lastEvent = [op |-> "onPickCSV", accepted |-> 1, rejected |-> 0]

SpecLongFile == InitLongFile /\ [][Next]_vars

\* every promise the component awaits settles: a pending parse resolves or
\* rejects as parseCSV decided, a pending upload resolves or rejects
ParseSettles ==
    \/ \E i \in DOMAIN pendingParses : OnPickCSVResolved(i)
    \/ \E i \in DOMAIN pendingParses : OnPickCSVRejected(i)

UploadSettles ==
    \/ \E i \in DOMAIN pendingUploads : OnSaveResolved(i)
    \/ \E i \in DOMAIN pendingUploads, message \in UploadErrors :
          OnSaveRejected(i, message)

LiveSpec ==
    Init /\ [][Next]_vars /\ WF_vars(ParseSettles) /\ WF_vars(UploadSettles)

TypeOK ==
    /\ state \in {"idle", "parsing", "parsed", "uploading"}
    /\ attempts \in 0..MaxUploads

\* ------------------------------------------------------------ properties
HasRows(d) == d.tag = "val" /\ Len(d.val) > 0

MissingRequiredColumn ==
    \E c \in requiredColumns : IsNullish(fields) \/ c.inputName \notin fields.val

\* C1: a parse result with a non-empty errors list leaves the session in
\* "parsed" with exactly those errors, no dataset and the upload disabled;
\* while no dataset is stored no upload starts, and only a new parse result
\* stores one.
C1_BlockingErrorsRejectDataset ==
    [][ /\ (lastEvent'.op = "parseResolved" /\ Len(lastEvent'.result.errors) > 0)
             => /\ state' = "parsed"
                /\ errors' = Arr(lastEvent'.result.errors)
                /\ parsedData' = Null
                /\ ~canSaveAndContinue'
                /\ ~UploadEnabled'
        /\ (parsedData = Null /\ lastEvent'.op # "parseResolved")
             => parsedData' = Null /\ attempts' = attempts ]_vars

C1_Witness ==
    /\ lastEvent.op = "parseResolved"
    /\ Len(lastEvent.result.errors) > 0
    /\ state = "parsed"
    /\ errors = Arr(lastEvent.result.errors)
    /\ parsedData = Null

\* C2: a parse result that filtered a row (invalidRows > 0, no validate()
\* column configured) and kept at least one row is stored as parsedData and
\* the upload is enabled.
C2_FilteredRowDoesNotBlock ==
    [][ ( /\ lastEvent'.op = "parseResolved"
          /\ \A k \in DOMAIN props.columnConfig :
                props.columnConfig[k].kind # "validate"
          /\ lastEvent'.result.validationStats.invalidRows > 0
          /\ Len(lastEvent'.result.data) > 0
          /\ ~MissingRequiredColumn' )
        => /\ parsedData' = Val(lastEvent'.result.data)
           /\ UploadEnabled' ]_vars

\* C3: while a required column is missing from the parsed fields (or no
\* fields are known) canSaveAndContinue is false and no upload starts.
C3_MissingRequiredBlocksUpload ==
    [][ /\ MissingRequiredColumn => (~canSaveAndContinue /\ attempts' = attempts)
        /\ MissingRequiredColumn' => ~canSaveAndContinue' ]_vars

C3_Witness ==
    /\ state = "parsed"
    /\ MissingRequiredColumn
    /\ errors = Arr(<<>>)
    /\ HasRows(parsedData)
    /\ validationStats.val.validRows > 0

\* C4: props.onUpload is called only from state "parsed" with no other
\* upload in flight; at most one upload is in flight.
C4_UploadOnlyFromParsed ==
    [][ /\ attempts' # attempts
             => /\ state = "parsed"
                /\ pendingUploads = <<>>
                /\ state' = "uploading"
        /\ Len(pendingUploads') <= 1 ]_vars

C4_Witness ==
    /\ state = "uploading"
    /\ Len(pendingUploads) = 1
    /\ attempts = 2

\* C5: when the transport raises, the session is back in "parsed" with the
\* dataset, file name, stats, fields and errors it had when the upload
\* started, uploadError is the error's message, and the upload is enabled.
C5_UploadFailureKeepsDataset ==
    [][ /\ (state = "uploading" /\ state' # "idle")
             => UNCHANGED << parsedData, fileName, validationStats, fields, errors >>
        /\ lastEvent'.op = "uploadRejected"
             => /\ state = "uploading"
                /\ state' = "parsed"
                /\ parsedData' = pendingUploads[1].data
                /\ fileName' = pendingUploads[1].fileName
                /\ HasRows(parsedData')
                /\ uploadError' = lastEvent'.message
                /\ UploadEnabled' ]_vars

C5_Witness ==
    /\ lastEvent.op = "uploadRejected"
    /\ state = "parsed"
    /\ uploadError = Str("Network Error")
    /\ HasRows(parsedData)
    /\ UploadEnabled

\* C6: a selection of zero files, of more than one file, or with a rejected
\* file records the single-file message and starts no parse.
C6_BadSelectionStartsNoParse ==
    [][ ( /\ lastEvent'.op = "onPickCSV"
          /\ \/ lastEvent'.accepted = 0
             \/ lastEvent'.accepted + lastEvent'.rejected > 1
             \/ lastEvent'.rejected > 0 )
        => /\ errors' = Arr(<< SingleFileMessage >>)
           /\ pendingParses' = pendingParses
           /\ UNCHANGED << state, parsedData, validationStats, fields >> ]_vars

\* C7: when the parse fails (ParseError, or transformAndValidate raised) no
\* dataset is stored, the session holds a non-empty error and the upload is
\* disabled.
C7_ParseFailureReported ==
    [][ ( /\ lastEvent'.op = "parseRejected"
          /\ lastEvent'.message \in {"ParseError", "transformAndValidate threw"} )
        => /\ parsedData' = Null
           /\ ErrorsLength(errors') > 0
           /\ ~UploadEnabled' ]_vars

\* C8: a progress event delivered while the state is not "uploading" changes
\* no field of the session.
C8_StaleProgressIgnored ==
    [][ (lastEvent'.op = "onUploadProgress" /\ state # "uploading")
        => UNCHANGED << sessionVars, pendingParses, pendingUploads, attempts >> ]_vars

C8_Witness ==
    /\ lastEvent.op = "onUploadProgress"
    /\ state = "parsed"
    /\ uploadError = Str("Network Error")
    /\ uploadProgress = Val(0)

\* C9: a parse result is applied only to the "parsing" state of its own
\* parse: it is the only parse in flight, and no parse is in flight in any
\* other state.
C9_OnlyLatestParseApplied ==
    /\ [](Len(pendingParses) <= 1 /\ (pendingParses # <<>> => state = "parsing"))
    /\ [][ lastEvent'.op = "parseResolved"
             => /\ state = "parsing"
                /\ pendingParses = << Resolved(lastEvent'.result) >>
                /\ pendingParses' = <<>> ]_vars

C9_Witness ==
    /\ lastEvent.op = "parseResolved"
    /\ state = "parsed"
    /\ pendingParses = <<>>
    /\ attempts > 0

\* C10: for a parse result without errors the session ends in "parsed", its
\* errors are empty exactly when the dataset has a row, and an empty dataset
\* records the no-valid-row message and disables the upload.
C10_EmptyDatasetReported ==
    [][ (lastEvent'.op = "parseResolved" /\ Len(lastEvent'.result.errors) = 0)
        => /\ state' = "parsed"
           /\ (errors' = Arr(<<>>)) <=> (Len(lastEvent'.result.data) > 0)
           /\ Len(lastEvent'.result.data) = 0
                => /\ errors' = Arr(<< NoValidRowMessage >>)
                   /\ ~canSaveAndContinue'
                   /\ ~UploadEnabled' ]_vars

C10_Witness ==
    /\ lastEvent.op = "parseResolved"
    /\ Len(lastEvent.result.errors) = 0
    /\ Len(lastEvent.result.data) = 0
    /\ state = "parsed"
    /\ errors = Arr(<< NoValidRowMessage >>)

\* C11: every request handed to props.onUpload carries the dataset of the
\* latest completed parse, which has at least one row, the fileName of that
\* same parse, and the progress callback of its own attempt.
C11_RequestCarriesLatestParse ==
    [][ attempts' # attempts
        => LET request == pendingUploads'[Len(pendingUploads')]
           IN /\ latestParse.tag = "val"
              /\ request.data = Val(latestParse.val.data)
              /\ Len(latestParse.val.data) > 0
              /\ request.fileName = Val(latestParse.val.fileName)
              /\ request.attempt = attempts'
              /\ request.attempt \notin { pendingUploads[i].attempt :
                                            i \in DOMAIN pendingUploads } ]_vars

\* a retry after a second file was parsed: the request carries that file
C11_Witness ==
    /\ state = "uploading"
    /\ attempts = 2
    /\ Len(pendingUploads) = 1
    /\ pendingUploads[1].fileName = Val("b.csv")
    /\ pendingUploads[1].data = Val(latestParse.val.data)
    /\ latestParse.val.fileName = "b.csv"

\* C12: for an errors list of length n and no uploadError, render() shows
\* the first min(n, 9) messages in their order and reports n - min(n, 9) as
\* overflow, with no overflow line when n <= 9.
C12_FirstNineAndOverflow ==
    (errors.tag = "array" /\ ~JsTruthy(uploadError))
    => LET n == Len(errors.items)
           m == IF n < 9 THEN n ELSE 9
       IN /\ RenderedErrors = Arr([ i \in 1..m |-> errors.items[i] ])
          /\ rest = Val(n - m)
          /\ OverflowLineShown <=> n > 9

C12_Witness ==
    /\ errors.tag = "array"
    /\ Len(errors.items) = 11
    /\ ~JsTruthy(uploadError)
    /\ Len(RenderedErrors.items) = 9
    /\ rest = Val(2)
    /\ OverflowLineShown

StatsSum(stats) == stats.validRows + stats.invalidRows + stats.duplicateRows

\* the result carries the message of a failed validate() check
HasBlockingMessage(result) ==
    \E k \in DOMAIN result.errors, i \in 1..result.validationStats.totalRows,
       c \in DOMAIN props.columnConfig :
          /\ props.columnConfig[c].kind = "validate"
          /\ result.errors[k] = RowMessage(i, props.columnConfig[c].inputName)

C14_StaleAttemptDiscarded ==
    [][ (lastEvent'.op = "onUploadProgress" /\ lastEvent'.attempt < attempts)
        => uploadProgress' = uploadProgress ]_vars

\* C15: the state is one of idle, parsing, parsed, uploading, starts at idle
\* and changes only by idle->parsing on a pick of exactly one accepted file,
\* parsing->parsed on a parse result, parsed->uploading on save,
\* parsed->idle on delete, uploading->idle on upload success and
\* uploading->parsed on upload failure; no pick and no delete happens while
\* the state is parsing or uploading.
C15_StateMachine ==
    /\ state = "idle"
    /\ [](state \in {"idle", "parsing", "parsed", "uploading"})
    /\ [][ /\ state' # state
                => \/ /\ state = "idle" /\ state' = "parsing"
                      /\ lastEvent'.op = "onPickCSV"
                      /\ lastEvent'.accepted = 1 /\ lastEvent'.rejected = 0
                   \/ /\ state = "parsing" /\ state' = "parsed"
                      /\ lastEvent'.op = "parseResolved"
                   \/ /\ state = "parsed" /\ state' = "uploading"
                      /\ lastEvent'.op = "onSave"
                   \/ /\ state = "parsed" /\ state' = "idle"
                      /\ lastEvent'.op = "onDelete"
                   \/ /\ state = "uploading" /\ state' = "idle"
                      /\ lastEvent'.op = "uploadResolved"
                   \/ /\ state = "uploading" /\ state' = "parsed"
                      /\ lastEvent'.op = "uploadRejected"
           /\ lastEvent'.op \in {"onPickCSV", "onDelete"}
                => state \notin {"parsing", "uploading"} ]_vars

\* C16: uploadProgress is 0 when an upload starts, and after a progress
\* event with 0 <= loaded <= total and total > 0 delivered while uploading
\* it is the fraction loaded / total.
C16_ProgressIsFraction ==
    [][ /\ attempts' # attempts => uploadProgress' = Val(0)
        /\ \A a \in 1..attempts, total \in 1..MaxTotal :
              \A loaded \in 0..total :
                 (state = "uploading" /\ OnUploadProgress(a, loaded, total))
                 => /\ uploadProgress'.tag = "val"
                    /\ uploadProgress'.val * total = loaded ]_vars

\* C17: onDelete and a successful upload leave the session in "idle" with
\* errors, uploadError, parsedData, validationStats and fields all null, and
\* what the next parse result stores in these fields is fixed by that result
\* alone.  (fileName and uploadProgress are not among the fields reset.)
C17_ResetToCleanState ==
    [][ /\ lastEvent'.op \in {"onDelete", "uploadResolved"}
             => /\ state' = "idle"
                /\ errors' = Null
                /\ uploadError' = Null
                /\ parsedData' = Null
                /\ validationStats' = Null
                /\ fields' = Null
                /\ pendingParses' = <<>>
                /\ pendingUploads' = <<>>
        /\ lastEvent'.op = "parseResolved"
             => LET result == lastEvent'.result
                IN /\ uploadError' = Null
                   /\ validationStats' = Val(result.validationStats)
                   /\ fields' = Val(result.fields)
                   /\ parsedData' = IF Len(result.errors) > 0 THEN Null
                                     ELSE Val(result.data)
                   /\ errors' = IF Len(result.errors) > 0 THEN Arr(result.errors)
                                 ELSE IF Len(result.data) > 0 THEN Arr(<<>>)
                                 ELSE Arr(<< NoValidRowMessage >>) ]_vars

\* idle again after a file with errors was deleted and after an upload
C17_Witness ==
    /\ lastEvent.op = "onDelete"
    /\ attempts > 0
    /\ state = "idle"
    /\ errors = Null
    /\ uploadError = Null
    /\ parsedData = Null
    /\ validationStats = Null
    /\ fields = Null
    /\ fileName # Undefined

\* C18: in every reachable state parsedData, validationStats and fields are
\* null while the session is idle or parsing, parsedData is non-null while it
\* is uploading, and uploadError is non-null only in state "parsed".
C18_FieldsFollowState ==
    /\ state \in {"idle", "parsing"}
         => /\ parsedData = Null
            /\ validationStats = Null
            /\ fields = Null
    /\ state = "uploading" => parsedData \notin {Null, Undefined}
    /\ uploadError \notin {Null, Undefined} => state = "parsed"

\* a second attempt is uploading after the first one failed
C18_Witness ==
    /\ state = "uploading"
    /\ attempts = 2
    /\ lastEvent.op = "onSave"
    /\ parsedData.tag = "val"
    /\ uploadError = Null

\* C19: when every awaited operation settles, a session in "parsing"
\* eventually reaches "parsed" or "idle", and a session in "uploading"
\* eventually reaches "idle" or "parsed".
C19_TransientStatesEnd ==
    /\ (state = "parsing") ~> (state \in {"parsed", "idle"})
    /\ (state = "uploading") ~> (state \in {"idle", "parsed"})

\* the uploading half of C19 alone
UploadingEnds == (state = "uploading") ~> (state \in {"idle", "parsed"})

\* the parsing half of C19 for parses that resolve
ResolvedParsingEnds ==
    (/\ state = "parsing"
     /\ pendingParses # <<>>
     /\ \A i \in DOMAIN pendingParses : pendingParses[i].status = "resolved")
       ~> (state \in {"parsed", "idle"})

====
